---- MODULE Spec2Model ----
(***************************************************************************)
(* bitbucket-repo-puller: src/main.rs.                                     *)
(*                                                                         *)
(* The program is one sequential async main: it reads the access token,   *)
(* creates and enters the target directory, fetches the repository        *)
(* listing, and then, per repository, stats <slug>, clones it if absent,  *)
(* enters it, lists the remote refs, checks out the first non-HEAD ref,   *)
(* pulls, and changes back to the target directory.                       *)
(*                                                                         *)
(* Paths are sequences of components below the filesystem root.  Strings  *)
(* that the program splits (the for-each-ref output) are sequences of     *)
(* tokens.  The filesystem, the network and git are the environment:      *)
(* their answers are chosen nondeterministically when the program asks.   *)
(***************************************************************************)
EXTENDS Integers, Sequences, FiniteSets, TLC

VARIABLES
    pc,                 \* position in main
    token,              \* env var BITBUCKET_ACCESS_TOKEN is set
    target_directory,   \* opts.target_directory
    cwd,                \* the process working directory (absolute path)
    orig_curr_dir,      \* main's orig_curr_dir, <<>>-wrapped Option
    fs,                 \* what the filesystem holds at the paths seen so far
    requests,           \* listing requests sent
    repos,              \* resp.repos
    i,                  \* index of the loop's current repo in repos
    repo_state,         \* main's repo_state
    repo_link,          \* main's repo_link
    stdout,             \* for_each_ref_output.stdout
    tuple,              \* the tuple taken from filtered_output
    running,            \* child processes spawned and not yet waited for
    exit_code,          \* the process exit code, -1 while running
    exit_reason,        \* which statement ended the run
    probed,             \* history: the slugs probed so far, in order
    trace,              \* history: the probe and the git commands of the
                        \*   current iteration, and the way it ended
    res,                \* history: the results of the current iteration
    input               \* the ref lines that stdout was printed from, when
                        \*   the specification draws them (<< >> otherwise)

vars == << pc, token, target_directory, cwd, orig_curr_dir, fs, requests,
           repos, i, repo_state, repo_link, stdout, tuple, running,
           exit_code, exit_reason, probed, trace, res, input >>

----------------------------------------------------------------------------
(* Bounds *)

\* longest repository listing the lister returns
MaxRepos == 2

----------------------------------------------------------------------------
(* Inputs *)

\* the directory the process is started in
OrigDir == << "home" >>

\* TARGET DIRECTORY as given on the command line: absolute, relative, or "."
TargetArgs ==
    { [absolute |-> TRUE,  path |-> << "home", "t" >>],
      [absolute |-> FALSE, path |-> << "t" >>],
      [absolute |-> FALSE, path |-> << >>] }

\* BitBucketRepo values: links maps a category to its BitBucketRepoLinks,
\* a link's name is an Option (<<>> is None)
RepoA == [slug |-> "a", name |-> "A",
          links |-> [clone |-> << [href |-> "https://a", name |-> << "http" >>],
                                  [href |-> "ssh://a",   name |-> << "ssh" >>] >>]]
RepoC == [slug |-> "c", name |-> "C",
          links |-> [clone |-> << [href |-> "https://c", name |-> << "http" >>],
                                  [href |-> "file://c",  name |-> << >>] >>]]
RepoD == [slug |-> "d", name |-> "D",
          links |-> [self |-> << [href |-> "https://d", name |-> << >>] >>]]

RepoUniverse == { RepoA, RepoC, RepoD }

RECURSIVE SeqsUpTo(_, _)
SeqsUpTo(S, n) ==
    IF n = 0 THEN { << >> }
    ELSE LET shorter == SeqsUpTo(S, n - 1)
         IN  shorter \cup { Append(s, x) : s \in shorter, x \in S }

Range(s) == { s[k] : k \in 1..Len(s) }

\* a project's slugs are unique, so a listing holds no repository twice
Listings ==
    { l \in SeqsUpTo(RepoUniverse, MaxRepos) : Cardinality(Range(l)) = Len(l) }

----------------------------------------------------------------------------
(* Filesystem *)

\* what lstat/chdir can find at a path
\*   absent     no entry (ErrorKind::NotFound)
\*   dir        a directory the process can enter
\*   lockeddir  a directory without search permission for the process
\*   file       a regular file
\*   symlink    a symbolic link (lstat does not follow it)
\*   staterr    lstat fails with an error other than NotFound
FsKinds == { "absent", "dir", "lockeddir", "file", "symlink", "staterr" }

\* the kinds the environment can answer with for path p: the recorded one
\* once p has been seen, otherwise any of first
Seen(p, first) == IF p \in DOMAIN fs THEN { fs[p] } ELSE first

Record(p, k) == (p :> k) @@ fs

\* path resolution of a chdir/stat argument against the working directory
Resolve(base, arg) == IF arg.absolute THEN arg.path ELSE base \o arg.path

RelPath(name) == [absolute |-> FALSE, path |-> << name >>]

----------------------------------------------------------------------------
(* Pure functions *)

None == [kind |-> "None"]
Panicked == [kind |-> "Panic"]
Some(v) == [kind |-> "Some", value |-> v]

\* link.name.as_ref().unwrap_or(&String::from(""))
NameOrEmpty(link) == IF link.name = << >> THEN "" ELSE link.name[1]

IsSsh(link) == NameOrEmpty(link) = "ssh"

\* get_clone_link_for_repo with unwrap_or_default() for unwrap(): a
\* descriptor without the category resolves to no link
get_clone_link_for_repo_NoCategoryIsNone(repo) ==
    IF "clone" \notin DOMAIN repo.links
    THEN None
    ELSE LET ssh == SelectSeq(repo.links.clone, IsSsh)
         IN  IF ssh = << >> THEN None ELSE Some(ssh[1].href)

\* get_clone_link_for_repo that takes the first link of the category when
\* none is named ssh
get_clone_link_for_repo_FallsBack(repo) ==
    IF "clone" \notin DOMAIN repo.links
    THEN Panicked
    ELSE LET ssh == SelectSeq(repo.links.clone, IsSsh)
         IN  IF ssh # << >> THEN Some(ssh[1].href)
             ELSE IF repo.links.clone # << >>
                  THEN Some(repo.links.clone[1].href)
                  ELSE None

\* repo.links.get("clone").unwrap().iter().filter(name == "ssh").map(href).next()
get_clone_link_for_repo(repo) ==
    IF "clone" \notin DOMAIN repo.links
    THEN Panicked
    ELSE LET ssh == SelectSeq(repo.links.clone, IsSsh)
         IN  IF ssh = << >> THEN None ELSE Some(ssh[1].href)

\* Tokens of the for-each-ref output: "LF" is the line feed, "|" the field
\* separator, "origin/" the remote prefix, "BAD" a byte sequence that is not
\* UTF-8; the rest are names and dates.
LF == "LF"
Bar == "|"
Origin == "origin/"
Bad == "BAD"

\* std::str::from_utf8
from_utf8_ok(bytes) == \A k \in 1..Len(bytes) : bytes[k] # Bad

\* str::split(sep): the pieces between the separators, at least one piece
RECURSIVE SplitFrom(_, _, _, _)
SplitFrom(s, sep, k, piece) ==
    IF k > Len(s) THEN << piece >>
    ELSE IF s[k] = sep THEN << piece >> \o SplitFrom(s, sep, k + 1, << >>)
    ELSE SplitFrom(s, sep, k + 1, Append(piece, s[k]))

split(s, sep) == SplitFrom(s, sep, 1, << >>)

\* str::lines(): split at line feeds, a final empty piece is not a line
lines(s) ==
    LET pieces == split(s, LF)
    IN  IF pieces[Len(pieces)] = << >>
        THEN SubSeq(pieces, 1, Len(pieces) - 1)
        ELSE pieces

\* str::strip_prefix("origin/")
strip_prefix(s) ==
    IF s # << >> /\ s[1] = Origin THEN Some(Tail(s)) ELSE None

\* the map closure of lines 215-218: both fields unwrapped
split_line(line) ==
    LET fields == split(line, Bar)
        short  == strip_prefix(fields[1])
    IN  IF short = None THEN Panicked
        ELSE IF Len(fields) < 2 THEN Panicked
        ELSE Some(<< short.value, fields[2] >>)

\* next_filtered over a collected iterator: every line is mapped before the
\* first one that passes the filter is taken
next_filtered_Eager(ls) ==
    LET ts == [k \in 1..Len(ls) |-> split_line(ls[k])]
    IN  IF \E k \in 1..Len(ls) : ts[k] = Panicked THEN Panicked
        ELSE LET kept == { k \in 1..Len(ls) : ts[k].value[1] # << "HEAD" >> }
             IN  IF kept = { } THEN None
                 ELSE ts[CHOOSE k \in kept : \A j \in kept : k <= j]

\* filtered_output.next(): the iterator is lazy, so lines are mapped one at
\* a time and only until the first one that passes the HEAD filter
RECURSIVE next_filtered(_)
next_filtered(ls) ==
    IF ls = << >> THEN None
    ELSE LET t == split_line(Head(ls))
         IN  IF t = Panicked THEN Panicked
             ELSE IF t.value[1] # << "HEAD" >> THEN t
             ELSE next_filtered(Tail(ls))

\* for-each-ref outputs the main specification draws from
RefLine(prefix, name) == prefix \o << name, Bar, "date", LF >>

RefOutputs ==
    { << >>,
      RefLine(<< Origin >>, "main") \o RefLine(<< Origin >>, "dev"),
      RefLine(<< Origin >>, "HEAD") \o RefLine(<< Origin >>, "main"),
      RefLine(<< Origin >>, "HEAD"),
      RefLine(<< >>, "main"),
      << Origin, "main", LF >>,
      RefLine(<< Origin >>, "dev") \o RefLine(<< >>, "main"),
      << Bad >> }

----------------------------------------------------------------------------
(* State *)

NoResults ==
    [idx |-> 0, cwd0 |-> << >>, probe |-> "none", link |-> "none",
     clone |-> "none", enter |-> "none", forref |-> "none",
     select |-> "none", checkout |-> "none", pull |-> "none",
     leave |-> "none", errs |-> { }, error |-> "none"]

Init ==
    /\ pc = "start"
    /\ token \in BOOLEAN
    /\ target_directory \in TargetArgs
    /\ cwd = OrigDir
    /\ orig_curr_dir = << >>
    /\ fs = (OrigDir :> "dir")
    /\ requests = 0
    /\ repos = << >>
    /\ i = 0
    /\ repo_state = "none"
    /\ repo_link = "none"
    /\ stdout = << >>
    /\ tuple = None
    /\ running = { }
    /\ exit_code = -1
    /\ exit_reason = "none"
    /\ probed = << >>
    /\ trace = << >>
    /\ res = NoResults
    /\ input = << >>

\* the loop's current repo
repo == repos[i]

\* an entry of the history: a probe or a git command, with the index of the
\* repo it is for, the working directory it is issued in and its argument.
\* The loop body starts a new history with its probe.
Event(op, arg) == [op |-> op, idx |-> i, cwd |-> cwd, arg |-> arg]

\* results of a wait on a spawned child: exit code 0, exit code not 0, no
\* exit code (killed by a signal), or the wait itself failing
WaitResults == { "ok", "nonzero", "signal", "waiterr" }

\* the match on a wait result (lines 182-189, 233-240, 250-257) prints to
\* stderr in every arm but Some(0): the commands with an error line so far
Logged(errs, cmd, r) == IF r = "ok" THEN errs ELSE errs \cup { cmd }

\* the process ends: main returns (0 for Ok, 1 for Err) or panics (101)
Exit(code, reason) ==
    /\ pc' = "done"
    /\ exit_code' = code
    /\ exit_reason' = reason

\* `continue`, or the end of the loop body: the loop takes the next repo and
\* the locals of the body are dropped; the working directory is not touched.
\* The history gets an "end" entry that names the way the body was left and
\* the working directory dir it was left in.
Continue(tr, how, dir) ==
    /\ pc' = "loop"
    /\ i' = i + 1
    /\ repo_state' = "none"
    /\ repo_link' = "none"
    /\ stdout' = << >>
    /\ tuple' = None
    /\ res' = NoResults
    /\ trace' = Append(tr, [op |-> "end", idx |-> i, cwd |-> dir,
                            arg |-> << how >>])

startup_vars == << token, target_directory, input >>
loop_vars == << repos, i >>
iter_vars == << repo_state, repo_link, stdout, tuple >>
end_vars == << exit_code, exit_reason >>

----------------------------------------------------------------------------
(* Startup: lines 120-135 *)

\* get_access_token whose result is not looked at before the listing is
\* requested
get_access_token_Unchecked ==
    /\ pc = "start"
    /\ pc' = "ensure_target"
    /\ UNCHANGED << startup_vars, probed, cwd, orig_curr_dir, fs, requests,
                    loop_vars, iter_vars, running, trace, res, end_vars >>

\* line 121: get_access_token().expect(..)
get_access_token ==
    /\ pc = "start"
    /\ IF token
       THEN pc' = "ensure_target" /\ UNCHANGED end_vars
       ELSE Exit(101, "no_token")
    /\ UNCHANGED << startup_vars, probed, cwd, orig_curr_dir, fs, requests,
                    loop_vars, iter_vars, running, trace, res >>

\* line 124: create_dir_all either leaves a directory at the path or fails
\* (a file is in the way, or a parent cannot be written) and main panics
ensure_target_directory_exists ==
    /\ pc = "ensure_target"
    /\ LET p == Resolve(cwd, target_directory)
       IN  \E k \in Seen(p, { "dir", "lockeddir", "file" }) :
              /\ fs' = Record(p, k)
              /\ IF k \in { "dir", "lockeddir" }
                 THEN pc' = "set_target" /\ UNCHANGED end_vars
                 ELSE Exit(101, "target_directory")
    /\ UNCHANGED << startup_vars, probed, cwd, orig_curr_dir, requests,
                    loop_vars, iter_vars, running, trace, res >>

\* remember_and_set_current_dir whose set_current_dir result is dropped
remember_and_set_current_dir_IgnoresFailure ==
    /\ pc = "set_target"
    /\ LET p == Resolve(cwd, target_directory)
       IN  /\ orig_curr_dir' = << cwd >>
           /\ cwd' = IF fs[p] = "dir" THEN p ELSE cwd
           /\ pc' = "list"
    /\ UNCHANGED << startup_vars, probed, fs, requests, loop_vars, iter_vars,
                    running, trace, res, end_vars >>

\* line 125: remember_and_set_current_dir
remember_and_set_current_dir ==
    /\ pc = "set_target"
    /\ LET p == Resolve(cwd, target_directory)
       IN  IF fs[p] = "dir"
           THEN /\ orig_curr_dir' = << cwd >>
                /\ cwd' = p
                /\ pc' = "list"
                /\ UNCHANGED end_vars
           ELSE /\ Exit(101, "target_directory")
                /\ UNCHANGED << cwd, orig_curr_dir >>
    /\ UNCHANGED << startup_vars, probed, fs, requests, loop_vars, iter_vars,
                    running, trace, res >>

\* lines 127-132: get_project_repos(..).await?
get_project_repos ==
    /\ pc = "list"
    /\ requests' = requests + 1
    /\ \/ /\ Exit(1, "listing")
          /\ UNCHANGED loop_vars
       \/ \E l \in Listings :
             /\ repos' = l
             /\ i' = 1
             /\ pc' = "loop"
             /\ UNCHANGED end_vars
    /\ UNCHANGED << startup_vars, probed, cwd, orig_curr_dir, fs, iter_vars,
                    running, trace, res >>

----------------------------------------------------------------------------
(* The loop over resp.repos: lines 137-262 *)

\* RepoActionStateOf over metadata(), which follows a symbolic link to the
\* directory it names
RepoActionStateOf_FollowsSymlinks(k) ==
    CASE k \in { "dir", "lockeddir", "symlink" } -> "AlreadyCloned"
      [] k = "absent"                            -> "ShouldClone"
      [] OTHER                                   -> "CannotClone"

\* lines 141-159: the RepoActionState for what symlink_metadata finds
RepoActionStateOf(k) ==
    CASE k \in { "dir", "lockeddir" } -> "AlreadyCloned"
      [] k = "absent"                 -> "ShouldClone"
      [] OTHER                        -> "CannotClone"

\* lines 146-150, 156: the io::Error that CannotClone carries: a new one of
\* kind AlreadyExists for a path that is not a directory, the error of
\* symlink_metadata itself otherwise
CannotCloneErrorOf(k) ==
    CASE k \in { "file", "symlink" } -> "AlreadyExists"
      [] k = "staterr"                -> "staterr"
      [] OTHER                        -> "none"

\* lines 137-159: the loop takes the next repo and stats its slug, a path
\* relative to the working directory
Probe ==
    /\ pc = "loop"
    /\ i <= Len(repos)
    /\ LET p == Resolve(cwd, RelPath(repo.slug))
       IN  \E k \in Seen(p, FsKinds) :
              /\ fs' = Record(p, k)
              /\ repo_state' = RepoActionStateOf(k)
              /\ res' = [NoResults EXCEPT !.idx = i, !.cwd0 = cwd,
                                          !.probe = RepoActionStateOf(k),
                                          !.error = CannotCloneErrorOf(k)]
    /\ probed' = Append(probed, repo.slug)
    /\ trace' = << Event("probe", << repo.slug >>) >>
    /\ pc' = "match"
    /\ UNCHANGED << startup_vars, cwd, orig_curr_dir, requests, loop_vars,
                    repo_link, stdout, tuple, running, end_vars >>

\* MatchCannotClone without its `continue`: the arm only prints and the body
\* goes on to line 195
MatchCannotClone_FallsThrough ==
    /\ pc = "match"
    /\ repo_state = "CannotClone"
    /\ pc' = "enter_repo"
    /\ UNCHANGED << startup_vars, probed, cwd, orig_curr_dir, fs, requests,
                    loop_vars, iter_vars, running, end_vars, trace, res >>

\* lines 162-165
MatchCannotClone ==
    /\ pc = "match"
    /\ repo_state = "CannotClone"
    /\ Continue(trace, "conflict", cwd)
    /\ UNCHANGED << startup_vars, probed, cwd, orig_curr_dir, fs, requests,
                    repos, running, end_vars >>

\* MatchShouldClone as the arm of every repo that is not in conflict: a repo
\* with a directory is cloned as well
MatchShouldClone_AlsoWhenPresent ==
    /\ pc = "match"
    /\ repo_state \in { "ShouldClone", "AlreadyCloned" }
    /\ LET link == get_clone_link_for_repo(repo)
       IN  CASE link = Panicked ->
                  /\ Exit(101, "clone_category")
                  /\ UNCHANGED << i, iter_vars, running, trace, res >>
             [] link = None ->
                  /\ Continue(trace, "no_clone_link", cwd)
                  /\ UNCHANGED << running, end_vars >>
             [] OTHER ->
                  \/ /\ Continue(Append(trace, Event("clone", << link.value >>)),
                                 "clone_spawn_failed", cwd)
                     /\ UNCHANGED << running, end_vars >>
                  \/ /\ repo_link' = link.value
                     /\ trace' = Append(trace, Event("clone", << link.value >>))
                     /\ res' = [res EXCEPT !.link = "Some",
                                           !.clone = "spawned"]
                     /\ running' = running \cup { "clone" }
                     /\ pc' = "clone_wait"
                     /\ UNCHANGED << i, repo_state, stdout, tuple, end_vars >>
    /\ UNCHANGED << startup_vars, probed, cwd, orig_curr_dir, fs, requests,
                    repos >>

\* lines 166-180: resolve the clone link, spawn git clone
MatchShouldClone ==
    /\ pc = "match"
    /\ repo_state = "ShouldClone"
    /\ LET link == get_clone_link_for_repo(repo)
       IN  CASE link = Panicked ->
                  /\ Exit(101, "clone_category")
                  /\ UNCHANGED << i, iter_vars, running, trace, res >>
             [] link = None ->
                  /\ Continue(trace, "no_clone_link", cwd)
                  /\ UNCHANGED << running, end_vars >>
             [] OTHER ->
                  \/ /\ Continue(Append(trace, Event("clone", << link.value >>)),
                                 "clone_spawn_failed", cwd)
                     /\ UNCHANGED << running, end_vars >>
                  \/ /\ repo_link' = link.value
                     /\ trace' = Append(trace, Event("clone", << link.value >>))
                     /\ res' = [res EXCEPT !.link = "Some",
                                           !.clone = "spawned"]
                     /\ running' = running \cup { "clone" }
                     /\ pc' = "clone_wait"
                     /\ UNCHANGED << i, repo_state, stdout, tuple, end_vars >>
    /\ UNCHANGED << startup_vars, probed, cwd, orig_curr_dir, fs, requests,
                    repos >>

\* CloneWait with a `continue` in the arms that print: a clone that did not
\* succeed skips the repo, as a clone that cannot be spawned does
CloneWait_SkipsOnFailure ==
    /\ pc = "clone_wait"
    /\ running' = running \ { "clone" }
    /\ \/ /\ fs' = Record(Resolve(cwd, RelPath(repo.slug)), "dir")
          /\ res' = [res EXCEPT !.clone = "ok"]
          /\ pc' = "enter_repo"
          /\ UNCHANGED << i, iter_vars, trace >>
       \/ /\ \E k \in { "absent", "dir" } :
                fs' = Record(Resolve(cwd, RelPath(repo.slug)), k)
          /\ Continue(trace, "clone_failed", cwd)
    /\ UNCHANGED << startup_vars, probed, cwd, orig_curr_dir, requests,
                    repos, end_vars >>

\* lines 181-190: child.wait().await; every result is logged at most and
\* falls out of the match.  A clone that exits 0 has made <slug>; one that
\* does not may or may not have left the directory behind.
CloneWait ==
    /\ pc = "clone_wait"
    /\ \E r \in WaitResults :
          /\ res' = [res EXCEPT !.clone = r,
                                !.errs = Logged(res.errs, "clone", r)]
          /\ \E k \in (IF r = "ok" THEN { "dir" } ELSE { "absent", "dir" }) :
                fs' = Record(Resolve(cwd, RelPath(repo.slug)), k)
    /\ running' = running \ { "clone" }
    /\ pc' = "enter_repo"
    /\ UNCHANGED << startup_vars, probed, cwd, orig_curr_dir, requests, loop_vars,
                    iter_vars, end_vars, trace >>

\* line 192
MatchAlreadyCloned ==
    /\ pc = "match"
    /\ repo_state = "AlreadyCloned"
    /\ pc' = "enter_repo"
    /\ UNCHANGED << startup_vars, probed, cwd, orig_curr_dir, fs, requests,
                    loop_vars, iter_vars, running, end_vars, trace, res >>

\* line 195: env::set_current_dir(&repo.slug)?
EnterRepoDir ==
    /\ pc = "enter_repo"
    /\ LET p == Resolve(cwd, RelPath(repo.slug))
       IN  IF fs[p] = "dir"
           THEN /\ cwd' = p
                /\ res' = [res EXCEPT !.enter = "ok"]
                /\ pc' = "for_each_ref"
                /\ UNCHANGED end_vars
           ELSE /\ res' = [res EXCEPT !.enter = "err"]
                /\ Exit(1, "enter_repo")
                /\ UNCHANGED cwd
    /\ UNCHANGED << startup_vars, probed, orig_curr_dir, fs, requests, loop_vars,
                    iter_vars, running, trace >>

\* lines 197-203: Command::new("git").arg("for-each-ref")...output() starts
\* the child; a failure to start it is the Err arm of lines 205-208
ForEachRefSpawn ==
    /\ pc = "for_each_ref"
    /\ \/ /\ Continue(Append(trace, Event("for-each-ref", << >>)),
                      "for_each_ref_failed", cwd)
          /\ UNCHANGED running
       \/ /\ trace' = Append(trace, Event("for-each-ref", << >>))
          /\ res' = [res EXCEPT !.forref = "spawned"]
          /\ running' = running \cup { "for-each-ref" }
          /\ pc' = "for_each_ref_output"
          /\ UNCHANGED << i, iter_vars >>
    /\ UNCHANGED << startup_vars, probed, cwd, orig_curr_dir, fs, requests, repos,
                    end_vars >>

\* lines 203-209: output().await collects stdout and the exit status; the
\* status is not looked at, an Err (the wait or the read failing) continues
ForEachRefOutput ==
    /\ pc = "for_each_ref_output"
    /\ running' = running \ { "for-each-ref" }
    /\ \/ Continue(trace, "for_each_ref_failed", cwd)
       \/ \E r \in { "ok", "nonzero", "signal" }, out \in RefOutputs :
             /\ res' = [res EXCEPT !.forref = r]
             /\ stdout' = out
             /\ pc' = "filter_output"
             /\ UNCHANGED << i, repo_state, repo_link, tuple, trace >>
    /\ UNCHANGED << startup_vars, probed, cwd, orig_curr_dir, fs, requests, repos,
                    end_vars >>

\* lines 213-221: from_utf8(..)?, the lazy map/filter, filtered_output.next()
FilterOutput ==
    /\ pc = "filter_output"
    /\ IF ~ from_utf8_ok(stdout)
       THEN /\ res' = [res EXCEPT !.select = "utf8err"]
            /\ Exit(1, "from_utf8")
            /\ UNCHANGED tuple
       ELSE LET t == next_filtered(lines(stdout))
            IN  CASE t = Panicked ->
                       /\ res' = [res EXCEPT !.select = "panic"]
                       /\ Exit(101, "split_line")
                       /\ UNCHANGED tuple
                  [] t = None ->
                       /\ res' = [res EXCEPT !.select = "None"]
                       /\ pc' = "leave_repo"
                       /\ UNCHANGED << tuple, end_vars >>
                  [] OTHER ->
                       /\ res' = [res EXCEPT !.select = "Some"]
                       /\ tuple' = t
                       /\ pc' = "checkout"
                       /\ UNCHANGED end_vars
    /\ UNCHANGED << startup_vars, probed, cwd, orig_curr_dir, fs, requests,
                    loop_vars, repo_state, repo_link, stdout, running,
                    trace >>

\* lines 222-231: spawn git checkout <tuple.0>
CheckoutSpawn ==
    /\ pc = "checkout"
    /\ \/ /\ Continue(Append(trace, Event("checkout", tuple.value[1])),
                      "checkout_spawn_failed", cwd)
          /\ UNCHANGED running
       \/ /\ trace' = Append(trace, Event("checkout", tuple.value[1]))
          /\ res' = [res EXCEPT !.checkout = "spawned"]
          /\ running' = running \cup { "checkout" }
          /\ pc' = "checkout_wait"
          /\ UNCHANGED << i, iter_vars >>
    /\ UNCHANGED << startup_vars, probed, cwd, orig_curr_dir, fs, requests, repos,
                    end_vars >>

\* CheckoutWait without the wait: the child is left running when pull starts
CheckoutWait_NotAwaited ==
    /\ pc = "checkout_wait"
    /\ pc' = "pull"
    /\ UNCHANGED << startup_vars, probed, cwd, orig_curr_dir, fs, requests,
                    loop_vars, iter_vars, running, end_vars, trace, res >>

\* lines 232-241
CheckoutWait ==
    /\ pc = "checkout_wait"
    /\ \E r \in WaitResults :
          res' = [res EXCEPT !.checkout = r,
                             !.errs = Logged(res.errs, "checkout", r)]
    /\ running' = running \ { "checkout" }
    /\ pc' = "pull"
    /\ UNCHANGED << startup_vars, probed, cwd, orig_curr_dir, fs, requests,
                    loop_vars, iter_vars, end_vars, trace >>

\* lines 242-248: spawn git pull
PullSpawn ==
    /\ pc = "pull"
    /\ \/ /\ Continue(Append(trace, Event("pull", << >>)),
                      "pull_spawn_failed", cwd)
          /\ UNCHANGED running
       \/ /\ trace' = Append(trace, Event("pull", << >>))
          /\ res' = [res EXCEPT !.pull = "spawned"]
          /\ running' = running \cup { "pull" }
          /\ pc' = "pull_wait"
          /\ UNCHANGED << i, iter_vars >>
    /\ UNCHANGED << startup_vars, probed, cwd, orig_curr_dir, fs, requests, repos,
                    end_vars >>

\* lines 249-258
PullWait ==
    /\ pc = "pull_wait"
    /\ \E r \in WaitResults :
          res' = [res EXCEPT !.pull = r,
                             !.errs = Logged(res.errs, "pull", r)]
    /\ running' = running \ { "pull" }
    /\ pc' = "leave_repo"
    /\ UNCHANGED << startup_vars, probed, cwd, orig_curr_dir, fs, requests,
                    loop_vars, iter_vars, end_vars, trace >>

\* line 261: env::set_current_dir(&opts.target_directory)?, the argument as
\* given on the command line, resolved against the working directory
LeaveRepoDir ==
    /\ pc = "leave_repo"
    /\ LET p == Resolve(cwd, target_directory)
       IN  \E k \in Seen(p, { "absent", "dir" }) :
              /\ fs' = Record(p, k)
              /\ IF k = "dir"
                 THEN /\ cwd' = p
                      /\ Continue(trace, IF res.select = "None"
                                         THEN "no_branch" ELSE "completed", p)
                      /\ UNCHANGED end_vars
                 ELSE /\ Exit(1, "leave_repo")
                      /\ res' = [res EXCEPT !.leave = "err"]
                      /\ UNCHANGED << cwd, i, iter_vars, trace >>
    /\ UNCHANGED << startup_vars, probed, orig_curr_dir, requests, repos,
                    running >>

\* line 137: resp.repos is exhausted
LoopEnd ==
    /\ pc = "loop"
    /\ i > Len(repos)
    /\ pc' = "restore_orig"
    /\ UNCHANGED << startup_vars, probed, cwd, orig_curr_dir, fs, requests,
                    loop_vars, iter_vars, running, end_vars, trace, res >>

\* lines 264-266: env::set_current_dir(orig_curr_dir)?; Ok(()).  The
\* directory the process was started in can be gone by now.
RestoreOrigDir ==
    /\ pc = "restore_orig"
    /\ LET p == orig_curr_dir[1]
       IN  \E k \in { "dir", "absent" } :
              /\ fs' = Record(p, k)
              /\ IF k = "dir"
                 THEN cwd' = p /\ Exit(0, "ok")
                 ELSE UNCHANGED cwd /\ Exit(1, "restore_orig")
    /\ UNCHANGED << startup_vars, probed, orig_curr_dir, requests, loop_vars,
                    iter_vars, running, trace, res >>

----------------------------------------------------------------------------
(* Specification *)

Next ==
    \/ get_access_token
    \/ ensure_target_directory_exists
    \/ remember_and_set_current_dir
    \/ get_project_repos
    \/ Probe
    \/ MatchCannotClone
    \/ MatchShouldClone
    \/ CloneWait
    \/ MatchAlreadyCloned
    \/ EnterRepoDir
    \/ ForEachRefSpawn
    \/ ForEachRefOutput
    \/ FilterOutput
    \/ CheckoutSpawn
    \/ CheckoutWait
    \/ PullSpawn
    \/ PullWait
    \/ LeaveRepoDir
    \/ LoopEnd
    \/ RestoreOrigDir

Spec == Init /\ [][Next]_vars

----------------------------------------------------------------------------
(* Vocabulary of the properties *)

\* the parent target directory: where line 125 puts the process
TargetDir == Resolve(OrigDir, target_directory)

SlugsOf(rs) == [k \in 1..Len(rs) |-> rs[k].slug]

\* the listing request was answered with a listing
Fetched == requests > 0 /\ exit_reason # "listing"

GitOps == { "clone", "for-each-ref", "checkout", "pull" }

HasEvent(op) == \E k \in 1..Len(trace) : trace[k].op = op

\* the current loop body has been left, by continue or by falling off its end
Ended == trace # << >> /\ trace[Len(trace)].op = "end"

EndedAs(how) == Ended /\ trace[Len(trace)].arg = << how >>

----------------------------------------------------------------------------
(* C1..C5: exit code, coverage of the listing, working directory *)

\* C1: a run ends with a non-zero exit code only for a missing credential, an
\* unusable target directory, a failed listing request or a failed restore of
\* the original working directory; no failure inside the loop body does it.
\* (An absent "clone" link category is let through here: C14 is about it.)
C1_NonZeroExitOnlyAtStartupOrRestore ==
    (pc = "done" /\ exit_code # 0)
        => exit_reason \in { "no_token", "target_directory", "listing",
                             "restore_orig", "clone_category" }

\* C2: when the run is over, every repo of the listing has been probed,
\* once, in the listing's order, whatever happened to the repos before it.
\* (An absent "clone" link category is let through here: C14 is about it.)
C2_EveryRepoProbedInOrder ==
    /\ Fetched => \E n \in 0..Len(repos) : probed = SubSeq(SlugsOf(repos), 1, n)
    /\ (pc = "done" /\ Fetched /\ exit_reason # "clone_category")
           => probed = SlugsOf(repos)

\* C3: every probe runs with the parent target directory as the working
\* directory, however the loop body of the repo before it was left.
C3_ProbeRunsInTargetDir ==
    trace # << >> => trace[1].cwd = TargetDir

\* C4: a run that got its listing ends in the working directory it was
\* started in (unless the final restore itself is what failed).
\* (An absent "clone" link category is let through here: C14 is about it.)
C4_EndsInOriginalDir ==
    (pc = "done" /\ Fetched
        /\ exit_reason \notin { "restore_orig", "clone_category" })
        => cwd = OrigDir

\* C5: clone is issued in the parent target directory; for-each-ref,
\* checkout and pull for a repo are issued in that repo's own directory.
C5_CommandsRunInTheirDirectory ==
    \A k \in 1..Len(trace) :
        /\ trace[k].op = "clone" => trace[k].cwd = TargetDir
        /\ trace[k].op \in { "for-each-ref", "checkout", "pull" }
               => trace[k].cwd = TargetDir \o << repos[trace[k].idx].slug >>

----------------------------------------------------------------------------
(* C6..C10: what follows what inside one loop body *)

FailedWaits == { "nonzero", "signal", "waiterr" }

\* C6 as stated: after any clone that did not succeed, a failure to spawn
\* included, the loop body goes on to enter the repo's directory and to run
\* for-each-ref.
C6_AnyCloneFailureStillEnters ==
    /\ (res.clone \in FailedWaits /\ pc # "enter_repo") => res.enter # "none"
    /\ (Ended /\ HasEvent("clone")) => HasEvent("for-each-ref")

\* C6 amended: after a clone that was spawned and did not succeed (non-zero
\* exit, killed by a signal, wait failing) the failure is logged, the loop
\* body goes on to the change into the repo's directory, and for-each-ref is
\* issued when that change succeeds.  A clone that cannot be spawned is the
\* one clone outcome that skips the repo: no directory change, no
\* for-each-ref.
C6_SpawnedCloneFailureStillEnters ==
    /\ res.clone \in FailedWaits =>
          /\ "clone" \in res.errs
          /\ pc = "enter_repo" \/ res.enter # "none"
          /\ res.enter = "ok" => (pc = "for_each_ref" \/ HasEvent("for-each-ref"))
    /\ (Ended /\ HasEvent("clone") /\ ~ EndedAs("clone_spawn_failed"))
          => HasEvent("for-each-ref")
    /\ EndedAs("clone_spawn_failed") =>
          /\ ~ HasEvent("for-each-ref")
          /\ trace[Len(trace)].cwd = trace[1].cwd

\* a clone was killed by a signal, left the directory behind, and the loop
\* body has entered it and started for-each-ref
C6_Witness ==
    /\ res.clone = "signal"
    /\ res.enter = "ok"
    /\ pc = "for_each_ref_output"

\* the history is about a repo whose local path is a conflict
ConflictProbed ==
    /\ trace # << >>
    /\ fs[trace[1].cwd \o trace[1].arg] \in { "file", "symlink", "staterr" }

\* C7: for a repo whose local path is a conflict no git command is issued,
\* no child runs, the working directory stays what it was at the probe, and
\* the loop moves to the next repo (the run does not end inside the body).
C7_ConflictSkipsRepo ==
    ConflictProbed =>
        /\ \A k \in 1..Len(trace) : trace[k].op \notin GitOps
        /\ running = { }
        /\ res.enter = "none"
        /\ pc \in { "match", "loop", "restore_orig", "done" }
        /\ pc # "done" => cwd = trace[1].cwd
        /\ pc = "done" => exit_reason \in { "ok", "restore_orig" }
        /\ pc # "match" =>
              /\ EndedAs("conflict")
              /\ i = trace[1].idx + 1
              /\ trace[Len(trace)].cwd = trace[1].cwd

\* the first repo of two is a symlink: skipped, and the second is up next
C7_Witness ==
    /\ ConflictProbed
    /\ fs[trace[1].cwd \o trace[1].arg] = "symlink"
    /\ EndedAs("conflict")
    /\ pc = "loop"
    /\ i = 2
    /\ Len(repos) = 2

\* position of an operation in the loop body
Rank(op) ==
    CASE op = "probe"        -> 1
      [] op = "clone"        -> 2
      [] op = "for-each-ref" -> 3
      [] op = "checkout"     -> 4
      [] op = "pull"         -> 5
      [] op = "end"          -> 6

\* C8: within one loop body the probe comes first and the commands follow in
\* the order clone, for-each-ref, checkout, pull, each at most once; at most
\* one child runs at any time, and it is the command issued last.
C8_CommandsInOrderOneAtATime ==
    /\ trace # << >> => trace[1].op = "probe"
    /\ \A j, k \in 1..Len(trace) :
          j < k => /\ Rank(trace[j].op) < Rank(trace[k].op)
                   /\ trace[j].idx = trace[k].idx
    /\ Cardinality(running) <= 1
    /\ running # { } => running = { trace[Len(trace)].op }

\* a body that ran all four commands, with pull still running
C8_Witness ==
    /\ [k \in 1..Len(trace) |-> trace[k].op]
           = << "probe", "clone", "for-each-ref", "checkout", "pull" >>
    /\ running = { "pull" }

\* C9: when for-each-ref fails to spawn, exits non-zero or is killed by a
\* signal, or its output is not UTF-8, neither checkout nor pull is issued
\* for the repo, the working directory is back in the parent target
\* directory when the body is left, and the run goes on with the next repo.
C9_ForEachRefFailureSkipsRepo ==
    /\ EndedAs("for_each_ref_failed") =>
          /\ ~ HasEvent("checkout")
          /\ ~ HasEvent("pull")
          /\ trace[Len(trace)].cwd = TargetDir
    /\ res.forref \in { "nonzero", "signal" } =>
          /\ ~ HasEvent("checkout")
          /\ ~ HasEvent("pull")
          /\ pc \notin { "checkout", "done" }
    /\ res.select = "utf8err" => pc # "done"

\* C10: once a branch is selected checkout is issued, pull is issued after
\* it whatever the result of checkout (a failure to spawn included), and a
\* pull that has ended, with whatever result, never ends the run: the body
\* is left and the next repo follows.
C10_CheckoutThenPullThenNext ==
    /\ pc = "checkout" => tuple.kind = "Some"
    /\ (Ended /\ HasEvent("checkout")) => HasEvent("pull")
    /\ res.checkout \in WaitResults => (pc = "pull" \/ HasEvent("pull"))
    /\ res.pull \in WaitResults => pc = "leave_repo"


----------------------------------------------------------------------------
(* The branch selection on its own: lines 213-221 applied to every listing *)
(* of at most MaxLines lines                                               *)

\* longest for-each-ref listing drawn
MaxLines == 3

\* A line as git prints it under the format of line 200 is the short name of
\* a ref below refs/remotes/origin, "|", the committer date.  A line shape
\* says which name it carries, whether the name has the remote's prefix and
\* whether the "|" and the date are there.
RefNames == { "HEAD", "main", "dev" }

RefLineShapes == [prefixed : BOOLEAN, name : RefNames, dated : BOOLEAN]

\* the date printed on the k-th line
Dates == << "date1", "date2", "date3", "date4" >>

PrintLine(l, k) ==
    (IF l.prefixed THEN << Origin >> ELSE << >>) \o << l.name >>
        \o (IF l.dated THEN << Bar, Dates[k] >> ELSE << >>) \o << LF >>

\* the bytes of a listing: its lines from the k-th on, each ended by LF
RECURSIVE PrintLines(_, _)
PrintLines(ls, k) ==
    IF k > Len(ls) THEN << >>
    ELSE PrintLine(ls[k], k) \o PrintLines(ls, k + 1)

\* main at line 213, in the directory of an already cloned repo "a" with
\* the output of for-each-ref in hand
InitSelect ==
    /\ pc = "filter_output"
    /\ input \in SeqsUpTo(RefLineShapes, MaxLines)
    /\ stdout = PrintLines(input, 1)
    /\ token = TRUE
    /\ target_directory = [absolute |-> TRUE, path |-> << "home", "t" >>]
    /\ cwd = << "home", "t", "a" >>
    /\ orig_curr_dir = << OrigDir >>
    /\ fs = (OrigDir :> "dir") @@ (<< "home", "t" >> :> "dir")
                @@ (<< "home", "t", "a" >> :> "dir")
    /\ requests = 1
    /\ repos = << RepoA >>
    /\ i = 1
    /\ repo_state = "AlreadyCloned"
    /\ repo_link = "none"
    /\ tuple = None
    /\ running = { }
    /\ exit_code = -1
    /\ exit_reason = "none"
    /\ probed = << "a" >>
    /\ trace = << [op |-> "probe", idx |-> 1, cwd |-> << "home", "t" >>,
                   arg |-> << "a" >>],
                  [op |-> "for-each-ref", idx |-> 1,
                   cwd |-> << "home", "t", "a" >>, arg |-> << >>] >>
    /\ res = [NoResults EXCEPT !.idx = 1, !.cwd0 = << "home", "t" >>,
                               !.probe = "AlreadyCloned", !.enter = "ok",
                               !.forref = "ok"]

NextSelect == FilterOutput

SpecSelect == InitSelect /\ [][NextSelect]_vars

\* a line in the format: prefixed name, "|", date
WellFormed(l) == l.prefixed /\ l.dated

\* the lines at which the selection can stop: the ones not in the format and
\* the ones whose name is not HEAD
Stops == { k \in 1..Len(input) :
             ~ WellFormed(input[k]) \/ input[k].name # "HEAD" }

FirstStop == CHOOSE k \in Stops : \A j \in Stops : k <= j

\* the selection has been made (or main has ended in making it)
Selected == pc # "filter_output" /\ res.select # "none"

\* C11: the selection returns the first line, in input order, whose name
\* without the origin/ prefix is not HEAD, as the pair of that name and the
\* line's date; it returns nothing when the listing has no such line, the
\* empty listing included; and whatever follows the selected line, in the
\* format or not, does not change what is returned.
C11_FirstNonHeadLineSelected ==
    Selected =>
       /\ Stops = { } => res.select = "None" /\ tuple = None
       /\ Stops # { } /\ WellFormed(input[FirstStop]) =>
             /\ res.select = "Some"
             /\ tuple = Some(<< << input[FirstStop].name >>,
                                << Dates[FirstStop] >> >>)

\* a listing of three lines is read: HEAD first, then dev, then a line that
\* is not in the format; dev is taken
C11_Witness ==
    /\ Selected
    /\ Len(input) = 3
    /\ input[1] = [prefixed |-> TRUE, name |-> "HEAD", dated |-> TRUE]
    /\ input[2] = [prefixed |-> TRUE, name |-> "dev", dated |-> TRUE]
    /\ ~ WellFormed(input[3])
    /\ tuple = Some(<< << "dev" >>, << "date2" >> >>)


\* the lines that carry the origin/ prefix and a name other than HEAD
Candidates == { k \in 1..Len(input) :
                  input[k].prefixed /\ input[k].name # "HEAD" }

\* C12: a line whose short name does not start with origin/ is skipped, and
\* only that line: the selection is not aborted, it returns the first
\* prefixed line after it whose name is not HEAD (nothing when there is
\* none), and main goes on.  Stated over listings whose lines all carry
\* the date field.
C12_UnprefixedLineSkipped ==
    (Selected /\ \A k \in 1..Len(input) : input[k].dated) =>
       /\ pc # "done"
       /\ IF Candidates = { }
          THEN res.select = "None"
          ELSE LET k == CHOOSE c \in Candidates : \A j \in Candidates : c <= j
               IN  tuple = Some(<< << input[k].name >>, << Dates[k] >> >>)


----------------------------------------------------------------------------
(* The clone link resolver on its own: lines 166-180 applied to every      *)
(* descriptor with a clone category of at most MaxLinks links              *)

\* most links in a descriptor's clone category
MaxLinks == 3

\* BitBucketRepoLinks values: an href and an optional transport name
LinkEntries == [href : { "ssh://x", "https://x" },
                name : { << >>, << "ssh" >>, << "http" >> }]

\* main at line 161, in the target directory, with repo "x" probed as absent
InitLinks ==
    /\ pc = "match"
    /\ \E ls \in SeqsUpTo(LinkEntries, MaxLinks) :
          repos = << [slug |-> "x", name |-> "X", links |-> [clone |-> ls]] >>
    /\ i = 1
    /\ repo_state = "ShouldClone"
    /\ token = TRUE
    /\ target_directory = [absolute |-> TRUE, path |-> << "home", "t" >>]
    /\ cwd = << "home", "t" >>
    /\ orig_curr_dir = << OrigDir >>
    /\ fs = (OrigDir :> "dir") @@ (<< "home", "t" >> :> "dir")
                @@ (<< "home", "t", "x" >> :> "absent")
    /\ requests = 1
    /\ repo_link = "none"
    /\ stdout = << >>
    /\ tuple = None
    /\ running = { }
    /\ exit_code = -1
    /\ exit_reason = "none"
    /\ probed = << "x" >>
    /\ trace = << [op |-> "probe", idx |-> 1, cwd |-> << "home", "t" >>,
                   arg |-> << "x" >>] >>
    /\ res = [NoResults EXCEPT !.idx = 1, !.cwd0 = << "home", "t" >>,
                               !.probe = "ShouldClone"]
    /\ input = << >>

NextLinks == MatchShouldClone

SpecLinks == InitLinks /\ [][NextLinks]_vars

\* the clone category of the descriptor the resolver was given
CloneLinks == repos[1].links.clone

\* the positions of the links named ssh
SshAt == { k \in 1..Len(CloneLinks) : CloneLinks[k].name = << "ssh" >> }

FirstSsh == CHOOSE k \in SshAt : \A j \in SshAt : k <= j

\* C13: for a descriptor with a clone category the resolver returns the
\* href of the first link, in sequence order, that is named ssh: that href
\* is what git clone is given.  It returns nothing when no link is named ssh
\* (a link without a name does not match): the repo is left as having no
\* clone link and no clone is issued with the href of another transport.
C13_FirstSshLinkResolved ==
    pc # "match" =>
       IF SshAt = { }
       THEN EndedAs("no_clone_link") /\ ~ HasEvent("clone")
       ELSE /\ ~ EndedAs("no_clone_link")
            /\ \E k \in 1..Len(trace) :
                  /\ trace[k].op = "clone"
                  /\ trace[k].arg = << CloneLinks[FirstSsh].href >>
            /\ pc = "clone_wait" => repo_link = CloneLinks[FirstSsh].href

\* the category holds an http link and then two ssh links with different
\* hrefs: the clone is given the href of the first ssh link
C13_Witness ==
    /\ pc = "clone_wait"
    /\ CloneLinks = << [href |-> "https://x", name |-> << "http" >>],
                       [href |-> "ssh://x",   name |-> << "ssh" >>],
                       [href |-> "https://x", name |-> << "ssh" >>] >>
    /\ repo_link = "ssh://x"


----------------------------------------------------------------------------
(* Claims on the main specification, continued *)

\* the repo of the current iteration (of the last one once the loop is over)
TraceRepo == repos[trace[1].idx]

LacksClone(r) == "clone" \notin DOMAIN r.links

\* C14 as stated: every repo of the listing whose descriptor has no clone
\* category aborts the run, so the loop never gets past such a repo.
C14_MissingCategoryAlwaysAborts ==
    \A k \in 1..Len(repos) : LacksClone(repos[k]) => i <= k

\* C14, amended: a descriptor without a clone category whose path is probed
\* as absent aborts the run with a panic (exit code 101) when its clone link
\* is resolved: it is not left as a repo with no clone link and no git
\* command is issued for it.  The link is resolved for no other repo, so a
\* run aborts this way only there.
C14_MissingCategoryAbortsWhenAbsent ==
    /\ (/\ trace # << >> /\ LacksClone(TraceRepo)
        /\ res.probe = "ShouldClone" /\ pc # "match") =>
          /\ pc = "done"
          /\ exit_code = 101
          /\ exit_reason = "clone_category"
          /\ Len(trace) = 1
    /\ EndedAs("no_clone_link") => ~ LacksClone(TraceRepo)
    /\ exit_reason = "clone_category" =>
          /\ LacksClone(TraceRepo)
          /\ res.probe = "ShouldClone"
          /\ fs[trace[1].cwd \o trace[1].arg] = "absent"

\* the second repo of the listing has no clone category and no directory:
\* the run has panicked on it
C14_Witness ==
    /\ exit_reason = "clone_category"
    /\ Len(probed) = 2
    /\ LacksClone(repos[2])
    /\ exit_code = 101


\* the descriptor has a link named ssh in its clone category
HasSshLink(r) ==
    /\ ~ LacksClone(r)
    /\ \E k \in 1..Len(r.links.clone) : r.links.clone[k].name = << "ssh" >>

\* C15: git clone is issued for a repo only when its path was probed as
\* absent and its clone link resolved, with that link; a repo probed as a
\* directory is not cloned and its next step is the change into its
\* directory, for-each-ref being its first git command; a repo probed as
\* absent whose descriptor has no ssh link gets no git command at all and
\* the loop goes on with the next repo.
C15_CloneOnlyWhenAbsentAndLinked ==
    /\ pc = "clone_wait" =>
          /\ res.probe = "ShouldClone"
          /\ fs[res.cwd0 \o << repo.slug >>] = "absent"
          /\ \E k \in 1..Len(repo.links.clone) :
                /\ repo.links.clone[k].name = << "ssh" >>
                /\ repo.links.clone[k].href = repo_link
    /\ HasEvent("clone") =>
          /\ HasSshLink(TraceRepo)
          /\ ~ Ended => res.probe = "ShouldClone"
          /\ EndedAs("clone_spawn_failed") =>
                fs[trace[1].cwd \o trace[1].arg] = "absent"
    /\ res.probe = "AlreadyCloned" =>
          /\ ~ HasEvent("clone")
          /\ pc # "match" => pc = "enter_repo" \/ res.enter # "none"
          /\ Len(trace) >= 2 =>
                trace[2].op = "for-each-ref" /\ res.enter = "ok"
    /\ (res.probe = "ShouldClone" /\ pc # "match"
            /\ ~ LacksClone(TraceRepo)) =>
          HasSshLink(TraceRepo) /\ HasEvent("clone")
    /\ EndedAs("no_clone_link") =>
          /\ ~ HasSshLink(TraceRepo)
          /\ fs[trace[1].cwd \o trace[1].arg] = "absent"
          /\ Len(trace) = 2
          /\ i = trace[1].idx + 1
          /\ exit_reason \in { "none", "ok", "restore_orig" }

\* the first repo has no ssh link and no directory, and the loop has gone on:
\* the second repo, absent and with an ssh link, is being cloned
C15_Witness ==
    /\ repos = << RepoC, RepoA >>
    /\ << "home", "t", "c" >> \in DOMAIN fs
    /\ fs[<< "home", "t", "c" >>] = "absent"
    /\ i = 2
    /\ pc = "clone_wait"
    /\ cwd = << "home", "t" >>
    /\ repo_link = "ssh://a"


\* C16: the probe classifies what is at the slug's path itself, a symbolic
\* link not being followed: nothing there gives ShouldClone, a directory
\* AlreadyCloned, anything else that exists (a file, a symbolic link, to a
\* directory or not) CannotClone with an AlreadyExists error, and a stat
\* that fails for another reason than not-found CannotClone with that error.
C16_ProbeClassifiesPath ==
    pc = "match" =>
       LET k == fs[cwd \o << repo.slug >>]
       IN  /\ k = "absent" => repo_state = "ShouldClone"
           /\ k \in { "dir", "lockeddir" } => repo_state = "AlreadyCloned"
           /\ k \in { "file", "symlink" } =>
                 repo_state = "CannotClone" /\ res.error = "AlreadyExists"
           /\ k = "staterr" =>
                 repo_state = "CannotClone" /\ res.error = "staterr"
           /\ repo_state # "CannotClone" => res.error = "none"
           /\ res.probe = repo_state

\* a symbolic link is at the slug's path: the repo is in conflict
C16_Witness ==
    /\ pc = "match"
    /\ fs[cwd \o << repo.slug >>] = "symlink"
    /\ repo_state = "CannotClone"
    /\ res.error = "AlreadyExists"


\* C17: without the access token in the environment the run fails at once
\* with a non-zero exit code: no directory has been created, the working
\* directory has not changed, no request has been sent and no git command
\* has been issued.
C17_NoTokenFailsBeforeAnything ==
    ~ token =>
       /\ pc \in { "start", "done" }
       /\ pc = "done" =>
             /\ exit_code = 101
             /\ exit_reason = "no_token"
       /\ fs = (OrigDir :> "dir")
       /\ cwd = OrigDir
       /\ orig_curr_dir = << >>
       /\ requests = 0
       /\ probed = << >>
       /\ trace = << >>
       /\ running = { }

\* the run has ended for want of the token
C17_Witness ==
    /\ ~ token
    /\ pc = "done"
    /\ exit_code = 101

\* C18: a listing request that fails ends the run with a non-zero exit code
\* with no repo probed and no git command issued; and the request is sent
\* only once the target directory exists and is the working directory, so a
\* target directory that cannot be created or entered ends the run with no
\* request sent.
C18_ListingFailureAbortsBeforeLoop ==
    /\ exit_reason = "listing" =>
          /\ pc = "done"
          /\ exit_code = 1
          /\ repos = << >>
          /\ probed = << >>
          /\ trace = << >>
          /\ running = { }
    /\ pc = "list" =>
          /\ requests = 0
          /\ fs[TargetDir] = "dir"
          /\ cwd = TargetDir
          /\ orig_curr_dir = << OrigDir >>
    /\ requests > 0 => orig_curr_dir = << OrigDir >>
    /\ exit_reason = "target_directory" =>
          /\ requests = 0
          /\ exit_code = 101

\* the listing request has failed, in the target directory
C18_Witness ==
    /\ exit_reason = "listing"
    /\ requests = 1
    /\ cwd = TargetDir
    /\ TargetDir # OrigDir
    /\ exit_code = 1


\* the iteration was left at its end, line 261 having succeeded
LeftAtEnd == EndedAs("completed") \/ EndedAs("no_branch")

\* C19: checkout and pull are issued for a repo only when the selection
\* returned a branch, checkout with exactly the selected name, which is the
\* short name of a line of the output without its origin/ prefix; when the
\* selection returns nothing neither is issued, the run does not end there
\* and the iteration ends with the working directory back in the target
\* directory.
C19_SyncOnlyForSelectedBranch ==
    /\ pc \in { "checkout", "checkout_wait", "pull", "pull_wait" } =>
          res.select = "Some" /\ tuple.kind = "Some"
    /\ ~ Ended =>
          \A k \in 1..Len(trace) :
             trace[k].op = "checkout" =>
                /\ trace[k].arg = tuple.value[1]
                /\ \E l \in Range(lines(stdout)) :
                      split(l, Bar)[1] = << Origin >> \o trace[k].arg
    /\ HasEvent("pull") => HasEvent("checkout")
    /\ res.select = "None" =>
          /\ ~ HasEvent("checkout")
          /\ ~ HasEvent("pull")
          /\ pc = "leave_repo"
    /\ EndedAs("no_branch") =>
          /\ ~ HasEvent("checkout")
          /\ ~ HasEvent("pull")
          /\ trace[Len(trace)].cwd = TargetDir

\* C20: when the body of the loop runs to its end, line 261 succeeds and
\* leaves the working directory in the directory that was entered at
\* startup, whether the target directory was given as an absolute or as a
\* relative path.
C20_RestoreReturnsToTargetDir ==
    /\ exit_reason # "leave_repo"
    /\ LeftAtEnd => trace[Len(trace)].cwd = TargetDir

============================================================================
